---- MODULE Spec2Model ----
(***************************************************************************)
(* A model of redisServerRust: the RESP codec (src/resp/mod.rs), the       *)
(* command layer (src/command/mod.rs), the store (src/store/mod.rs) and    *)
(* the connection tasks (src/main.rs).                                     *)
(*                                                                         *)
(* Bytes are their ASCII codes, a byte string (BytesMut, String, &[u8]) is *)
(* a sequence of bytes, and an Option<T> is a sequence of length 0 (None)  *)
(* or 1 (Some).  Indices into byte strings are 0-based as in the source.   *)
(***************************************************************************)
EXTENDS Integers, Sequences, FiniteSets, TLC

----------------------------------------------------------------------------
(* Bounds of the model *)

\* width in bits of the model's i64 (the source's is 64)
IntBits == 6
\* longest sequence of arbitrary bytes the client puts on the wire
MaxRaw == 3
\* longest array among the protocol values the client encodes
MaxArray == 2
\* frames one run of the decoder may return
MaxFrames == 2
\* connections the server has accepted
NumConns == 2
\* frames the clients send in one run
MaxCmds == 2
\* the clock's last instant, in milliseconds after the start
MaxTime == 2
\* operands after the command name in the frames that try every arity
MaxOperands == 5

----------------------------------------------------------------------------
(* Bytes *)

Plus == 43
Minus == 45
Colon == 58
Dollar == 36
Star == 42
CR == 13
LF == 10
Space == 32
Zero == 48
\* a byte that is valid nowhere in UTF-8
BadByte == 255

None == <<>>
Some(x) == <<x>>

\* &input[from..to]
Slice(input, from, to) == SubSeq(input, from + 1, to)
\* BytesMut::advance(cnt)
advance(input, cnt) == SubSeq(input, cnt + 1, Len(input))

\* input.windows(2).any(|w| w == b"\r\n")
HasCrlf(input) ==
    \E i \in 1..(Len(input) - 1) : input[i] = CR /\ input[i + 1] = LF

find_crlf(input) ==
    IF Len(input) < 2 \/ ~HasCrlf(input) THEN None
    ELSE Some(CHOOSE i \in 0..(Len(input) - 2) :
                /\ input[i + 1] = CR /\ input[i + 2] = LF
                /\ \A j \in 0..(i - 1) : ~(input[j + 1] = CR /\ input[j + 2] = LF))

\* str::from_utf8 accepts: over the model's bytes (ASCII and BadByte) a
\* string is valid UTF-8 exactly when it holds no BadByte
from_utf8_ok(bytes) == \A i \in 1..Len(bytes) : bytes[i] < 128

----------------------------------------------------------------------------
(* i64: parsing and formatting *)

I64_MAX == 2 ^ (IntBits - 1) - 1
I64_MIN == -(2 ^ (IntBits - 1))

IsDigit(b) == b \in Zero..(Zero + 9)

\* the magnitude of a digit string, saturating just above the i64 range
RECURSIVE Magnitude(_)
Magnitude(digits) ==
    IF digits = <<>> THEN 0
    ELSE LET m == Magnitude(SubSeq(digits, 1, Len(digits) - 1)) * 10
                  + (digits[Len(digits)] - Zero)
         IN  IF m > I64_MAX + 1 THEN I64_MAX + 2 ELSE m

\* str::parse::<i64>(): an optional sign, then one or more digits, in range
parse_i64(s) ==
    LET signed == s # <<>> /\ s[1] \in {Plus, Minus}
        digits == IF signed THEN Tail(s) ELSE s
        n      == IF s # <<>> /\ s[1] = Minus THEN -Magnitude(digits)
                  ELSE Magnitude(digits)
    IN  IF digits = <<>> \/ (\E i \in 1..Len(digits) : ~IsDigit(digits[i])) THEN None
        ELSE IF n < I64_MIN \/ n > I64_MAX THEN None
        ELSE Some(n)

RECURSIVE NatToString(_)
NatToString(n) ==
    IF n < 10 THEN <<Zero + n>>
    ELSE Append(NatToString(n \div 10), Zero + (n % 10))

\* i64's Display, as used by format!("{}", n) and to_string()
to_string(n) == IF n < 0 THEN <<Minus>> \o NatToString(-n) ELSE NatToString(n)

----------------------------------------------------------------------------
(* RespType *)

SimpleString(str) == [t |-> "SimpleString", s |-> Some(str), n |-> 0, a |-> None]
Error(str)        == [t |-> "Error", s |-> Some(str), n |-> 0, a |-> None]
Integer(num)      == [t |-> "Integer", s |-> None, n |-> num, a |-> None]
BulkString(opt)   == [t |-> "BulkString", s |-> opt, n |-> 0, a |-> None]
Array(opt)        == [t |-> "Array", s |-> None, n |-> 0, a |-> opt]

\* Result<Option<RespType>, RespError>, with the buffer as the call leaves
\* it; a panic is an outcome of its own
Ok(opt, input)  == [res |-> "Ok", opt |-> opt, err |-> "", input |-> input]
Err(e, input)   == [res |-> "Err", opt |-> None, err |-> e, input |-> input]
Panic(input)    == [res |-> "Panic", opt |-> None, err |-> "", input |-> input]

IsWhitespace(b) == b \in {9, 10, 11, 12, 13, 32}

\* str::split_whitespace().collect()
RECURSIVE SplitFrom(_, _, _)
SplitFrom(line, i, word) ==
    IF i > Len(line) THEN (IF word = <<>> THEN <<>> ELSE <<word>>)
    ELSE IF IsWhitespace(line[i])
         THEN (IF word = <<>> THEN <<>> ELSE <<word>>) \o SplitFrom(line, i + 1, <<>>)
         ELSE SplitFrom(line, i + 1, Append(word, line[i]))

split_whitespace(line) == SplitFrom(line, 1, <<>>)

parse_simple_string(input) ==
    LET end == find_crlf(input)
    IN  IF end = None THEN Ok(None, input)
        ELSE IF ~from_utf8_ok(Slice(input, 1, end[1])) THEN Err("InvalidUtf8", input)
        ELSE Ok(Some(SimpleString(Slice(input, 1, end[1]))), advance(input, end[1] + 2))

parse_error(input) ==
    LET end == find_crlf(input)
    IN  IF end = None THEN Ok(None, input)
        ELSE IF ~from_utf8_ok(Slice(input, 1, end[1])) THEN Err("InvalidUtf8", input)
        ELSE Ok(Some(Error(Slice(input, 1, end[1]))), advance(input, end[1] + 2))

parse_integer(input) ==
    LET end == find_crlf(input)
    IN  IF end = None THEN Ok(None, input)
        ELSE LET num_str == Slice(input, 1, end[1])
                 num     == parse_i64(num_str)
             IN  IF ~from_utf8_ok(num_str) THEN Err("InvalidUtf8", input)
                 ELSE IF num = None THEN Err("InvalidData", input)
                 ELSE Ok(Some(Integer(num[1])), advance(input, end[1] + 2))

\* `len as usize` of a negative len is 2^64 + len.  total_len then overflows
\* usize (a panic in a build with overflow checks; without them the slice
\* that follows is out of range, a panic too) exactly when
\* len >= -(len_end + 4); a len below that gives a total_len no buffer
\* reaches, so the call reports incomplete.
parse_bulk_string(input) ==
    LET len_end == find_crlf(input)
    IN  IF len_end = None THEN Ok(None, input)
        ELSE LET len_str   == Slice(input, 1, len_end[1])
                 len       == parse_i64(len_str)
                 total_len == len_end[1] + 2 + len[1] + 2
                 string    == Slice(input, len_end[1] + 2, len_end[1] + 2 + len[1])
             IN  IF ~from_utf8_ok(len_str) THEN Err("InvalidUtf8", input)
                 ELSE IF len = None THEN Err("InvalidData", input)
                 ELSE IF len[1] = -1
                      THEN Ok(Some(BulkString(None)), advance(input, len_end[1] + 2))
                 ELSE IF len[1] < 0
                      THEN (IF len[1] >= -(len_end[1] + 4) THEN Panic(input)
                            ELSE Ok(None, input))
                 ELSE IF Len(input) < total_len THEN Ok(None, input)
                 ELSE IF ~from_utf8_ok(string) THEN Err("InvalidUtf8", input)
                 ELSE Ok(Some(BulkString(Some(string))), advance(input, total_len))

RECURSIVE parse(_), parse_elements(_, _, _, _)

\* the `for _ in 0..len` loop of parse_array, `left` iterations to go.
\* split_off(pos) and the swap leave `input` holding the bytes from pos on
\* and `rest` those before pos; after the element's parse the remainder is
\* appended to `rest` again and `pos` becomes the remainder's length.
parse_elements(input, pos, elements, left) ==
    IF left = 0 THEN Ok(Some(Array(Some(elements))), input)
    ELSE IF pos >= Len(input) THEN Ok(None, input)
    ELSE LET rest == Slice(input, 0, pos)
             r    == parse(Slice(input, pos, Len(input)))
         IN  IF r.res # "Ok" THEN r
             ELSE IF r.opt # None
                  THEN parse_elements(rest \o r.input, Len(r.input),
                                      Append(elements, r.opt[1]), left - 1)
             ELSE Ok(None, rest \o r.input)

\* Vec::with_capacity(len as usize) of a negative len, or of the largest
\* i64: more bytes than isize::MAX, the panic "capacity overflow"
parse_array(input) ==
    LET len_end == find_crlf(input)
    IN  IF len_end = None THEN Ok(None, input)
        ELSE LET len_str == Slice(input, 1, len_end[1])
                 len     == parse_i64(len_str)
             IN  IF ~from_utf8_ok(len_str) THEN Err("InvalidUtf8", input)
                 ELSE IF len = None THEN Err("InvalidData", input)
                 ELSE IF len[1] = -1
                      THEN Ok(Some(Array(None)), advance(input, len_end[1] + 2))
                 ELSE IF len[1] < 0 \/ len[1] = I64_MAX THEN Panic(input)
                 ELSE parse_elements(input, len_end[1] + 2, <<>>, len[1])

\* the `_` arm of parse: a plain-text line
parse_inline(input) ==
    LET end == find_crlf(input)
    IN  IF end = None THEN Ok(None, input)
        ELSE LET line  == Slice(input, 0, end[1])
                 parts == split_whitespace(line)
             IN  IF ~from_utf8_ok(line) THEN Err("InvalidUtf8", input)
                 ELSE IF parts = <<>> THEN Err("InvalidData", input)
                 ELSE Ok(Some(Array(Some([i \in 1..Len(parts) |->
                                             BulkString(Some(parts[i]))]))),
                         advance(input, end[1] + 2))

parse(input) ==
    IF input = <<>> THEN Ok(None, input)
    ELSE IF ~HasCrlf(input) THEN Ok(None, input)
    ELSE IF input[1] = Plus THEN parse_simple_string(input)
    ELSE IF input[1] = Minus THEN parse_error(input)
    ELSE IF input[1] = Colon THEN parse_integer(input)
    ELSE IF input[1] = Dollar THEN parse_bulk_string(input)
    ELSE IF input[1] = Star THEN parse_array(input)
    ELSE parse_inline(input)

RECURSIVE serialize(_), serialize_items(_)

serialize_items(arr) ==
    IF arr = <<>> THEN <<>> ELSE serialize(Head(arr)) \o serialize_items(Tail(arr))

serialize(v) ==
    IF v.t = "SimpleString" THEN <<Plus>> \o v.s[1] \o <<CR, LF>>
    ELSE IF v.t = "Error" THEN <<Minus>> \o v.s[1] \o <<CR, LF>>
    ELSE IF v.t = "Integer" THEN <<Colon>> \o to_string(v.n) \o <<CR, LF>>
    ELSE IF v.t = "BulkString"
         THEN (IF v.s = None THEN <<Dollar, Minus, Zero + 1, CR, LF>>
               ELSE <<Dollar>> \o to_string(Len(v.s[1])) \o <<CR, LF>>
                    \o v.s[1] \o <<CR, LF>>)
    ELSE IF v.a = None THEN <<Star, Minus, Zero + 1, CR, LF>>
    ELSE <<Star>> \o to_string(Len(v.a[1])) \o <<CR, LF>> \o serialize_items(v.a[1])

----------------------------------------------------------------------------
(* Command *)

\* "PING"
PING == <<80, 73, 78, 71>>
\* "ECHO"
ECHO == <<69, 67, 72, 79>>
\* "SET"
SET == <<83, 69, 84>>
\* "GET"
GET == <<71, 69, 84>>
\* "EXISTS"
EXISTS == <<69, 88, 73, 83, 84, 83>>
\* "DEL"
DEL == <<68, 69, 76>>
\* "INCR"
INCR == <<73, 78, 67, 82>>
\* "DECR"
DECR == <<68, 69, 67, 82>>
\* "EX"
EX == <<69, 88>>
\* "PX"
PX == <<80, 88>>
\* "PONG"
PONG == <<80, 79, 78, 71>>
\* "OK"
OK == <<79, 75>>
\* "ERR value is not an integer or out of range"
NotAnInteger ==
    <<69, 82, 82, 32, 118, 97, 108, 117, 101, 32, 105, 115, 32, 110, 111, 116, 32,
      97, 110, 32, 105, 110, 116, 101, 103, 101, 114, 32, 111, 114, 32, 111, 117,
      116, 32, 111, 102, 32, 114, 97, 110, 103, 101>>
\* "ERR unknown command '"
UnknownPrefix ==
    <<69, 82, 82, 32, 117, 110, 107, 110, 111, 119, 110, 32, 99, 111, 109, 109,
      97, 110, 100, 32, 39>>

\* the variants of Command; a variant's unused fields are empty
Ping         == [op |-> "Ping", key |-> <<>>, value |-> <<>>, expiry |-> None, keys |-> <<>>]
Echo(msg)    == [op |-> "Echo", key |-> <<>>, value |-> msg, expiry |-> None, keys |-> <<>>]
Set(k, v, e) == [op |-> "Set", key |-> k, value |-> v, expiry |-> e, keys |-> <<>>]
Get(k)       == [op |-> "Get", key |-> k, value |-> <<>>, expiry |-> None, keys |-> <<>>]
Exists(k)    == [op |-> "Exists", key |-> k, value |-> <<>>, expiry |-> None, keys |-> <<>>]
Del(ks)      == [op |-> "Del", key |-> <<>>, value |-> <<>>, expiry |-> None, keys |-> ks]
Incr(k)      == [op |-> "Incr", key |-> k, value |-> <<>>, expiry |-> None, keys |-> <<>>]
Decr(k)      == [op |-> "Decr", key |-> k, value |-> <<>>, expiry |-> None, keys |-> <<>>]
Unknown(cmd) == [op |-> "Unknown", key |-> <<>>, value |-> cmd, expiry |-> None, keys |-> <<>>]

\* str::to_uppercase, on the model's ASCII bytes
to_uppercase(str) ==
    [i \in 1..Len(str) |-> IF str[i] \in 97..122 THEN str[i] - 32 ELSE str[i]]

\* the largest u64; the model's u64 is IntBits wide
U64_MAX == 2 * I64_MAX + 1

\* the magnitude of a digit string, saturating just above the u64 range
RECURSIVE Magnitude64(_)
Magnitude64(digits) ==
    IF digits = <<>> THEN 0
    ELSE LET m == Magnitude64(SubSeq(digits, 1, Len(digits) - 1)) * 10
                  + (digits[Len(digits)] - Zero)
         IN  IF m > U64_MAX THEN U64_MAX + 1 ELSE m

\* str::parse::<u64>(): an optional '+', then one or more digits, in range
parse_u64(s) ==
    LET digits == IF s # <<>> /\ s[1] = Plus THEN Tail(s) ELSE s
    IN  IF digits = <<>> \/ (\E i \in 1..Len(digits) : ~IsDigit(digits[i])) THEN None
        ELSE IF Magnitude64(digits) > U64_MAX THEN None
        ELSE Some(Magnitude64(digits))

\* a Duration is a number of milliseconds
from_secs(secs) == secs * 1000
from_millis(millis) == millis

\* the pattern RespType::BulkString(Some(s))
IsBulk(resp) == resp.t = "BulkString" /\ resp.s # None

\* the expiry the SET arm of from_resp reads from array[3] and array[4]
set_expiry(array) ==
    IF Len(array) >= 5 /\ IsBulk(array[4]) /\ IsBulk(array[5])
    THEN LET opt == to_uppercase(array[4].s[1])
             val == parse_u64(array[5].s[1])
         IN  IF opt = EX /\ val # None THEN Some(from_secs(val[1]))
             ELSE IF opt = PX /\ val # None THEN Some(from_millis(val[1]))
             ELSE None
    ELSE None

\* the arms of from_resp that take exactly one operand: the operand
one_operand(array) ==
    IF Len(array) # 2 THEN None
    ELSE IF IsBulk(array[2]) THEN Some(array[2].s[1])
    ELSE None

from_resp(resp) ==
    IF resp.t # "Array" \/ resp.a = None THEN None
    ELSE LET array == resp.a[1]
             command_name == to_uppercase(array[1].s[1])
             operand == one_operand(array)
         IN  IF array = <<>> THEN None
             ELSE IF ~IsBulk(array[1]) THEN None
             ELSE IF command_name = PING THEN Some(Ping)
             ELSE IF command_name = ECHO
                  THEN (IF operand = None THEN None ELSE Some(Echo(operand[1])))
             ELSE IF command_name = SET
                  THEN (IF Len(array) < 3 THEN None
                        ELSE IF ~IsBulk(array[2]) \/ ~IsBulk(array[3]) THEN None
                        ELSE Some(Set(array[2].s[1], array[3].s[1], set_expiry(array))))
             ELSE IF command_name = GET
                  THEN (IF operand = None THEN None ELSE Some(Get(operand[1])))
             ELSE IF command_name = EXISTS
                  THEN (IF operand = None THEN None ELSE Some(Exists(operand[1])))
             ELSE IF command_name = DEL
                  THEN (IF Len(array) < 2 THEN None
                        ELSE IF \E i \in 2..Len(array) : ~IsBulk(array[i]) THEN None
                        ELSE Some(Del([i \in 1..(Len(array) - 1) |-> array[i + 1].s[1]])))
             ELSE IF command_name = INCR
                  THEN (IF operand = None THEN None ELSE Some(Incr(operand[1])))
             ELSE IF command_name = DECR
                  THEN (IF operand = None THEN None ELSE Some(Decr(operand[1])))
             ELSE Some(Unknown(command_name))

----------------------------------------------------------------------------
(* Store: Value and the HashMap *)

\* a Value::new that gives every entry a deadline, a missing expiry
\* counting as a zero duration (expiry.unwrap_or_default())
Value_new_deadline(str, expiry, t) ==
    [data |-> str, expiry |-> Some(t + (IF expiry = None THEN 0 ELSE expiry[1]))]

\* Value::new(data, expiry) with SystemTime::now() reading t
Value_new(str, expiry, t) ==
    [data |-> str, expiry |-> IF expiry = None THEN None ELSE Some(t + expiry[1])]

\* the last instant a SystemTime holds: its seconds are an i64
SystemTime_MAX == I64_MAX * 1000 + 999

\* `SystemTime::now() + duration` in Value::new, the clock reading t: the
\* addition panics when the sum is past the last SystemTime
add_overflows(expiry, t) == expiry # None /\ t + expiry[1] > SystemTime_MAX

\* an is_expired that never reports a deadline as passed
is_expired_never(value, t) == FALSE

\* Value::is_expired with SystemTime::now() reading t
is_expired(value, t) == value.expiry # None /\ t > value.expiry[1]

\* a parse_int that reads an unparsable string as 0 (unwrap_or(0))
parse_int_or_zero(value) ==
    IF parse_i64(value.data) = None THEN Some(0) ELSE parse_i64(value.data)

parse_int(value) == parse_i64(value.data)

\* Value::remaining_duration with SystemTime::now() reading t:
\* duration_since fails when the expiry is earlier than t
remaining_duration(value, t) ==
    IF value.expiry = None THEN None
    ELSE IF value.expiry[1] >= t THEN Some(value.expiry[1] - t)
    ELSE None

\* HashMap::get, insert, remove; the map is a function on its present keys
get(map, key) == IF key \in DOMAIN map THEN Some(map[key]) ELSE None
insert(map, key, value) ==
    [k \in DOMAIN map \cup {key} |-> IF k = key THEN value ELSE map[k]]

\* a remove that leaves the entry where it is
remove_kept(map, key) == map

remove(map, key) == [k \in DOMAIN map \ {key} |-> map[k]]

\* HashMap::new()
EmptyMap == [k \in {} |-> None]

----------------------------------------------------------------------------
(* State *)

VARIABLES
    wire,      \* the bytes one client sends on its connection
    nread,     \* how many of them reader.read_buf has delivered
    buffer,    \* process_connection's `buffer`
    result,    \* what the last call of RespType::parse returned
    decoded,   \* the frames parse has returned on the connection, in order
    data,      \* Store.data: the HashMap behind the mutex
    now,       \* SystemTime::now()
    mutex,     \* the Mutex of Store.data: locked, poisoned
    task,      \* each connection task: where it is and what it holds
    written,   \* each connection: the replies written to its socket, in order
    quota,     \* each connection: the frames its client still sends
    conn       \* each connection: the bytes on their way, its buffer, its loop

codec_vars == <<wire, nread, buffer, result, decoded, conn>>
store_vars == <<data, now, mutex, task, written, quota>>
vars ==
    <<wire, nread, buffer, result, decoded, conn, data, now, mutex, task, written, quota>>

----------------------------------------------------------------------------
(* What a client puts on the wire *)

\* the a of "a"
LetterA == 97

Texts == {<<>>, <<79, 75>>}

Scalars ==
    {SimpleString(x) : x \in Texts} \cup {Error(x) : x \in Texts}
    \cup {Integer(n) : n \in {-1, 0, 12}}
    \cup {BulkString(None), BulkString(Some(<<>>)), BulkString(Some(<<LetterA>>)),
          BulkString(Some(<<CR, LF>>)), Array(None)}

Items ==
    {Integer(-1), SimpleString(<<79, 75>>), BulkString(None),
     BulkString(Some(<<LetterA>>)), BulkString(Some(<<CR, LF>>)), Array(None)}

ArraysOf(elems) ==
    {Array(Some(arr)) : arr \in UNION {[1..k -> elems] : k \in 0..MaxArray}}

Nested ==
    ArraysOf({Integer(0), Array(Some(<<>>)), Array(Some(<<Integer(0)>>)),
              Array(Some(<<BulkString(Some(<<LetterA>>)), BulkString(Some(<<LetterA>>))>>))})

\* the protocol values a client encodes
Values == Scalars \cup ArraysOf(Items) \cup Nested

\* what follows a frame on the wire: nothing, a whole frame, the start of one
Tails == {<<>>, <<Colon, Zero + 1, CR, LF>>, <<Plus>>}

RawBytes == {Plus, Minus, Colon, Dollar, Star, CR, LF, Space, Zero + 1, BadByte}

RawWires == UNION {[1..k -> RawBytes] : k \in 0..MaxRaw}

\* frames a careless client sends: a signed integer, a padded length, a
\* plain-text line of two words, a bulk string with no terminator, an array
\* with a plain-text element
Irregular ==
    {<<Colon, Plus, Zero + 1, CR, LF>>,
     <<Dollar, Zero, Zero + 1, CR, LF, LetterA, CR, LF>>,
     <<LetterA, Space, Zero + 1, CR, LF>>,
     <<Dollar, Zero + 1, CR, LF, LetterA, Colon, Zero + 1>>,
     <<Star, Zero + 1, CR, LF, LetterA, CR, LF>>}

\* headers that declare a length no frame has: "$-2", "$-9" and "*-5",
\* alone and before a whole frame, and an array of the largest i64
OutOfRange ==
    {<<sigil, Minus, Zero + n, CR, LF>> \o tail :
        sigil \in {Dollar, Star}, n \in {2, 5, 9},
        tail \in {<<>>, <<Colon, Zero + 1, CR, LF>>}}
    \cup {<<Star>> \o to_string(I64_MAX) \o <<CR, LF>>}

Wires ==
    {serialize(v) \o tail : v \in Values, tail \in Tails}
    \cup RawWires \cup Irregular \cup OutOfRange

----------------------------------------------------------------------------
(* The codec, driven as process_connection drives it *)

NoResult == Ok(None, <<>>)

InitStore ==
    /\ data = EmptyMap
    /\ now = 0
    /\ mutex = [locked |-> FALSE, poisoned |-> FALSE]

InitCodec ==
    /\ wire \in Wires
    /\ nread = 0
    /\ buffer = <<>>
    /\ result = NoResult
    /\ decoded = <<>>
    /\ InitStore
    /\ task = <<>>
    /\ written = <<>>
    /\ quota = <<>>
    /\ conn = <<>>

\* reader.read_buf(&mut buffer): the next n bytes of the wire are appended
ReadBuf ==
    /\ result.res = "Ok"
    /\ \E n \in 1..(Len(wire) - nread) :
          /\ buffer' = buffer \o SubSeq(wire, nread + 1, nread + n)
          /\ nread' = nread + n
    /\ UNCHANGED <<wire, result, decoded, conn>>
    /\ UNCHANGED store_vars

\* RespType::parse(&mut buffer)
ParseCall ==
    /\ result.res = "Ok"
    /\ Len(decoded) < MaxFrames
    /\ LET r == parse(buffer)
       IN  /\ result' = [r EXCEPT !.input = <<>>]
           /\ buffer' = r.input
           /\ decoded' = IF r.opt = None THEN decoded ELSE Append(decoded, r.opt[1])
    /\ UNCHANGED <<wire, nread, conn>>
    /\ UNCHANGED store_vars

NextCodec == ReadBuf \/ ParseCall

SpecCodec == InitCodec /\ [][NextCodec]_vars

----------------------------------------------------------------------------
(* The store and the connection tasks that call it *)

Conns == 1..NumConns

\* "k", the key the clients work on, and "j", a second key
KeyK == <<107>>
KeyJ == <<106>>
\* "a", "5", the largest i64 and the smallest
Vals == {<<LetterA>>, <<Zero + 5>>, to_string(I64_MAX), to_string(I64_MIN)}

\* the array of bulk strings a client sends for a command line
Request(words) == Array(Some([i \in 1..Len(words) |-> BulkString(Some(words[i]))]))

\* the frames the clients send: SET without an expiry, with EX 0, (in
\* lower case) with px 1 and with EX of the first u64 past the i64 range,
\* every command on k, and DEL on lists with j
Requests ==
    {Request(<<SET, KeyK, v>>) : v \in Vals}
    \cup {Request(<<SET, KeyK, v, EX, <<Zero>>>>) : v \in {<<LetterA>>, <<Zero + 5>>}}
    \cup {Request(<<SET, KeyK, <<Zero + 5>>, EX, NatToString(I64_MAX + 1)>>)}
    \cup {Request(<<<<115, 101, 116>>, KeyK, <<Zero + 5>>, <<112, 120>>, <<Zero + 1>>>>)}
    \cup {Request(<<op, KeyK>>) : op \in {GET, EXISTS, DEL, INCR, DECR}}
    \cup {Request(<<SET, KeyJ, <<LetterA>>>>),
          Request(<<SET, KeyJ, <<LetterA>>, EX, <<Zero>>>>),
          Request(<<GET, KeyJ>>)}
    \cup {Request(<<DEL, KeyK, KeyJ>>), Request(<<DEL, KeyJ, KeyK>>),
          Request(<<DEL, KeyK, KeyK>>)}

StoreOps == {"Set", "Get", "Exists", "Del", "Incr", "Decr"}

\* a task between frames, and a task that has panicked
Idle == [pc |-> "read", cmd |-> None, value |-> None, response |-> None]
Dead == [pc |-> "dead", cmd |-> None, value |-> None, response |-> None]

\* the ways to give each client its share of the run's frames
Quotas ==
    {q \in [Conns -> 0..MaxCmds] :
        \E split \in [0..NumConns -> 0..MaxCmds] :
            /\ split[0] = 0 /\ split[NumConns] = MaxCmds
            /\ \A c \in Conns : split[c] = split[c - 1] + q[c]}

InitTasks ==
    /\ wire = <<>>
    /\ nread = 0
    /\ buffer = <<>>
    /\ result = NoResult
    /\ decoded = <<>>
    /\ InitStore
    /\ task = [c \in Conns |-> Idle]
    /\ written = [c \in Conns |-> <<>>]
    /\ conn = <<>>

Init ==
    /\ InitTasks
    /\ quota \in Quotas

\* SystemTime::now() read at or after instant t
ClockRead(t) == t..MaxTime

Tick ==
    /\ now < MaxTime
    /\ now' = now + 1
    /\ UNCHANGED <<data, mutex, task, written, quota>>
    /\ UNCHANGED codec_vars

\* Mutex::lock() returns only while no other guard is alive
\* a lock that excludes nobody: the map shared without its Mutex
lock_unguarded(m) == TRUE

can_lock(m) == ~m.locked

\* process_connection has decoded a frame, Command::from_resp has made it a
\* store command and Command::execute calls the Store method, which takes
\* the lock (`self.data.lock().unwrap()`, a panic when the mutex is
\* poisoned) and looks the key up (`data.get(key)`)
Lock(c, frames) ==
    /\ task[c].pc = "read"
    /\ quota[c] > 0
    /\ can_lock(mutex)
    /\ \E frame \in frames :
          LET cmd == from_resp(frame)
          IN  /\ cmd # None
              /\ cmd[1].op \in StoreOps
              /\ IF mutex.poisoned
                 THEN task' = [task EXCEPT ![c] = Dead] /\ UNCHANGED mutex
                 ELSE /\ mutex' = [mutex EXCEPT !.locked = TRUE]
                      /\ task' = [task EXCEPT ![c] =
                                    [pc |-> "locked", cmd |-> cmd,
                                     value |-> get(data, cmd[1].key),
                                     response |-> None]]
    /\ quota' = [quota EXCEPT ![c] = @ - 1]
    /\ UNCHANGED <<data, now, written>>
    /\ UNCHANGED codec_vars

\* the Store method returns (its guard is dropped) and Command::execute
\* makes the response of its result; the task still holds `cmd`
Return(c, reply) ==
    /\ task' = [task EXCEPT ![c] = [pc |-> "write", cmd |-> @.cmd, value |-> None,
                                    response |-> Some(reply)]]
    /\ mutex' = [mutex EXCEPT !.locked = FALSE]
    /\ UNCHANGED <<written, quota>>
    /\ UNCHANGED codec_vars

\* writer.write_all(&response.serialize()) and flush: the reply is on the
\* socket and the task goes back to its buffer
Write(c) ==
    /\ task[c].pc = "write"
    /\ written' = [written EXCEPT ![c] = Append(@, task[c].response[1])]
    /\ task' = [task EXCEPT ![c] = Idle]
    /\ UNCHANGED <<data, now, mutex, quota>>
    /\ UNCHANGED codec_vars

\* the task panics inside the Store method: the guard is dropped while
\* unwinding, which poisons the mutex, and the task is gone
Unwind(c) ==
    /\ task' = [task EXCEPT ![c] = Dead]
    /\ mutex' = [locked |-> FALSE, poisoned |-> TRUE]
    /\ UNCHANGED <<written, quota>>
    /\ UNCHANGED codec_vars

InMethod(c, op) == task[c].pc = "locked" /\ task[c].cmd[1].op = op

store_set(c) ==
    /\ InMethod(c, "Set")
    /\ LET cmd == task[c].cmd[1]
       IN  \E t \in ClockRead(now) :
              /\ cmd.expiry = None => t = now
              /\ now' = t
              /\ IF add_overflows(cmd.expiry, t)
                 THEN UNCHANGED data /\ Unwind(c)
                 ELSE /\ data' = insert(data, cmd.key,
                                        Value_new(cmd.value, cmd.expiry, t))
                      /\ Return(c, SimpleString(OK))

store_get(c) ==
    /\ InMethod(c, "Get")
    /\ LET key   == task[c].cmd[1].key
           value == task[c].value
       IN  IF value = None
           THEN UNCHANGED <<data, now>> /\ Return(c, BulkString(None))
           ELSE \E t \in ClockRead(now) :
                   /\ value[1].expiry = None => t = now
                   /\ now' = t
                   /\ IF is_expired(value[1], t)
                      THEN data' = remove(data, key) /\ Return(c, BulkString(None))
                      ELSE data' = data /\ Return(c, BulkString(Some(value[1].data)))

store_exists(c) ==
    /\ InMethod(c, "Exists")
    /\ LET key   == task[c].cmd[1].key
           value == task[c].value
       IN  IF value = None
           THEN UNCHANGED <<data, now>> /\ Return(c, Integer(0))
           ELSE \E t \in ClockRead(now) :
                   /\ value[1].expiry = None => t = now
                   /\ now' = t
                   /\ IF is_expired(value[1], t)
                      THEN data' = remove(data, key) /\ Return(c, Integer(0))
                      ELSE data' = data /\ Return(c, Integer(1))

\* the loop of Store::del from instant t on: every way it can end, as the
\* map, the count and the clock's last reading
\* a del loop without the is_expired test: every listed key the map holds
\* is removed and counted
del_unchecked(map, keys, deleted, t) ==
    LET listed == {keys[i] : i \in 1..Len(keys)} \cap DOMAIN map
    IN  {[data    |-> [k \in DOMAIN map \ listed |-> map[k]],
          deleted |-> deleted + Cardinality(listed),
          now     |-> t]}

RECURSIVE del_loop(_, _, _, _)
del_loop(map, keys, deleted, t) ==
    IF keys = <<>> THEN {[data |-> map, deleted |-> deleted, now |-> t]}
    ELSE LET key == Head(keys)
         IN  IF key \notin DOMAIN map THEN del_loop(map, Tail(keys), deleted, t)
             ELSE IF map[key].expiry = None
                  THEN del_loop(remove(map, key), Tail(keys), deleted + 1, t)
             ELSE UNION {IF ~is_expired(map[key], u)
                         THEN del_loop(remove(map, key), Tail(keys), deleted + 1, u)
                         ELSE del_loop(map, Tail(keys), deleted, u) : u \in ClockRead(t)}

store_del(c) ==
    /\ InMethod(c, "Del")
    /\ \E end \in del_loop(data, task[c].cmd[1].keys, 0, now) :
          /\ data' = end.data
          /\ now' = end.now
          /\ Return(c, Integer(end.deleted))

\* i64 arithmetic without overflow checks wraps
wrapping(n) == ((n - I64_MIN) % (2 ^ IntBits)) + I64_MIN

\* Store::incr (delta 1, first "1") and Store::decr (delta -1, first "-1").
\* The clock is read by is_expired, by remaining_duration and by Value::new,
\* each only when there is an expiry.  n + delta out of range panics in a
\* build with overflow checks and wraps in one without; Value::new panics
\* when its deadline is past the last SystemTime.
counter(c, delta, first) ==
    LET key   == task[c].cmd[1].key
        value == task[c].value
    IN  IF value = None
        THEN /\ data' = insert(data, key, Value_new(first, None, now))
             /\ now' = now
             /\ Return(c, Integer(delta))
        ELSE \E t1 \in ClockRead(now) :
               /\ value[1].expiry = None => t1 = now
               /\ IF is_expired(value[1], t1)
                  THEN /\ data' = insert(remove(data, key), key, Value_new(first, None, t1))
                       /\ now' = t1
                       /\ Return(c, Integer(delta))
                  ELSE LET n == parse_int(value[1])
                       IN  IF n = None
                           THEN /\ UNCHANGED data
                                /\ now' = t1
                                /\ Return(c, Error(NotAnInteger))
                           ELSE \/ /\ n[1] + delta \notin I64_MIN..I64_MAX
                                   /\ UNCHANGED data
                                   /\ now' = t1
                                   /\ Unwind(c)
                                \/ \E t2 \in ClockRead(t1), t3 \in ClockRead(t1) :
                                      LET new_n  == wrapping(n[1] + delta)
                                          expiry == remaining_duration(value[1], t2)
                                      IN  /\ value[1].expiry = None => t2 = t1
                                          /\ t3 >= t2
                                          /\ expiry = None => t3 = t2
                                          /\ now' = t3
                                          /\ IF add_overflows(expiry, t3)
                                             THEN UNCHANGED data /\ Unwind(c)
                                             ELSE /\ data' = insert(data, key,
                                                        Value_new(to_string(new_n),
                                                                  expiry, t3))
                                                  /\ Return(c, Integer(new_n))

store_incr(c) == InMethod(c, "Incr") /\ counter(c, 1, <<Zero + 1>>)

\* a decr left as the copy of incr it was written from
store_decr_as_incr(c) == InMethod(c, "Decr") /\ counter(c, 1, <<Zero + 1>>)

store_decr(c) == InMethod(c, "Decr") /\ counter(c, -1, <<Minus, Zero + 1>>)

Next ==
    \/ Tick
    \/ \E c \in Conns :
          \/ Lock(c, Requests)
          \/ store_set(c)
          \/ store_get(c)
          \/ store_exists(c)
          \/ store_del(c)
          \/ store_incr(c)
          \/ store_decr(c)
          \/ Write(c)

Spec == Init /\ [][Next]_vars

\* the connections issue nothing but INCR k, each as often as it may
InitIncr ==
    /\ InitTasks
    /\ quota = [c \in Conns |-> MaxCmds]

NextIncr ==
    \/ Tick
    \/ \E c \in Conns :
          \/ Lock(c, {Request(<<INCR, KeyK>>)})
          \/ store_incr(c)
          \/ Write(c)

SpecIncr == InitIncr /\ [][NextIncr]_vars

----------------------------------------------------------------------------
(* The connection tasks fed with frames of every shape *)

\* an execute whose unknown-command error leaves the name out
execute_nameless(cmd) ==
    IF cmd.op = "Ping" THEN SimpleString(PONG)
    ELSE IF cmd.op = "Echo" THEN BulkString(Some(cmd.value))
    ELSE Error(UnknownPrefix \o <<39>>)

\* Command::execute for the commands that do not touch the Store
execute(cmd) ==
    IF cmd.op = "Ping" THEN SimpleString(PONG)
    ELSE IF cmd.op = "Echo" THEN BulkString(Some(cmd.value))
    ELSE Error(UnknownPrefix \o cmd.value \o <<39>>)

\* process_connection has decoded a frame and Command::from_resp makes no
\* command of it: nothing is executed or written, the loop goes on
Drop(c, frames) ==
    /\ task[c].pc = "read"
    /\ quota[c] > 0
    /\ \E frame \in frames : from_resp(frame) = None
    /\ quota' = [quota EXCEPT ![c] = @ - 1]
    /\ UNCHANGED <<data, now, mutex, task, written>>
    /\ UNCHANGED codec_vars

\* process_connection has decoded a frame, Command::from_resp has made it
\* PING, ECHO or an unknown command, and Command::execute has its response
Answer(c, frames) ==
    /\ task[c].pc = "read"
    /\ quota[c] > 0
    /\ \E frame \in frames :
          LET cmd == from_resp(frame)
          IN  /\ cmd # None
              /\ cmd[1].op \notin StoreOps
              /\ task' = [task EXCEPT ![c] =
                            [pc |-> "write", cmd |-> cmd, value |-> None,
                             response |-> Some(execute(cmd[1]))]]
    /\ quota' = [quota EXCEPT ![c] = @ - 1]
    /\ UNCHANGED <<data, now, mutex, written>>
    /\ UNCHANGED codec_vars

\* the names from_resp knows
Names == {PING, ECHO, SET, GET, EXISTS, DEL, INCR, DECR}

\* every known name followed by 0 to MaxOperands operands "k"
Plain ==
    {Request(<<name>> \o [i \in 1..n |-> KeyK]) : name \in Names, n \in 0..MaxOperands}

\* elements that are no present bulk string
NotBulk == {Integer(1), BulkString(None)}

\* frames with such an element as an operand
Misshapen ==
    {Array(Some(<<BulkString(Some(name)), bad>>)) : name \in Names, bad \in NotBulk}
    \cup {Array(Some(<<BulkString(Some(SET)), BulkString(Some(KeyK)), bad>>)) : bad \in NotBulk}
    \cup {Array(Some(<<BulkString(Some(SET)), bad, BulkString(Some(KeyK))>>)) : bad \in NotBulk}
    \cup {Array(Some(<<BulkString(Some(SET)), BulkString(Some(KeyK)),
                       BulkString(Some(KeyK)), bad, BulkString(Some(<<Zero + 1>>))>>)) :
             bad \in NotBulk}
    \cup {Array(Some(<<BulkString(Some(DEL)), BulkString(Some(KeyK)), bad>>)) : bad \in NotBulk}

\* frames that are no array of a name and operands
Shapeless ==
    {Array(None), Array(Some(<<>>)), Integer(1), BulkString(Some(PING)),
     Array(Some(<<Integer(1)>>)), Array(Some(<<BulkString(None), BulkString(Some(KeyK))>>))}

\* "FOO", "ping", "Get", "decrby", and a name with a line break in it
Foo == <<70, 79, 79>>
OtherCase == {<<112, 105, 110, 103>>, <<71, 101, 116>>}
Unsupported == {Foo, <<100, 101, 99, 114, 98, 121>>, <<LetterA, CR, LF, LetterA>>}

\* frames whose name is in another letter-case or is not supported
Named ==
    {Request(<<name>>) : name \in OtherCase \cup Unsupported}
    \cup {Request(<<name, KeyK>>) : name \in OtherCase \cup Unsupported}
    \cup {Array(Some(<<BulkString(Some(Foo)), Integer(1)>>))}

\* option and value tokens of SET: EX and PX in three letter-cases and "XX";
\* 0, 1, +1, -1, a, the empty token, the first u64 past the i64 range and
\* the first number past the u64 range
Options == {EX, <<101, 120>>, <<69, 120>>, PX, <<112, 120>>, <<88, 88>>}
Tokens ==
    {<<Zero>>, <<Zero + 1>>, <<Plus, Zero + 1>>, <<Minus, Zero + 1>>, <<LetterA>>, <<>>,
     NatToString(I64_MAX + 1), NatToString(U64_MAX + 1)}
WithOption == {Request(<<SET, KeyK, <<Zero + 5>>, opt, val>>) : opt \in Options, val \in Tokens}

Frames == Plain \cup Misshapen \cup Shapeless \cup Named \cup WithOption

\* the first connection sends all the frames of the run
InitCommand ==
    /\ InitTasks
    /\ quota = [c \in Conns |-> IF c = 1 THEN MaxCmds ELSE 0]

NextCommand ==
    \E c \in Conns :
       \/ Drop(c, Frames)
       \/ Answer(c, Frames)
       \/ Lock(c, Frames)
       \/ store_set(c)
       \/ store_get(c)
       \/ store_exists(c)
       \/ store_del(c)
       \/ store_incr(c)
       \/ store_decr(c)
       \/ Write(c)

SpecCommand == InitCommand /\ [][NextCommand]_vars

----------------------------------------------------------------------------
(* process_connection, byte by byte *)

\* a plain-text command line: the words with a space between them, CR LF
RECURSIVE Join(_)
Join(words) ==
    IF Len(words) = 1 THEN words[1]
    ELSE words[1] \o <<Space>> \o Join(Tail(words))

\* what a client sends: the frame it means, if any, and the bytes it writes
\* for it, as a plain-text line, as an array of bulk strings, or as is
Typed(words) == [value |-> Some(Request(words)), bytes |-> Join(words) \o <<CR, LF>>]
Framed(words) == [value |-> Some(Request(words)), bytes |-> serialize(Request(words))]
Raw(bytes) == [value |-> None, bytes |-> bytes]

\* pieces no decoder accepts: a line of no words, an integer and a length
\* that are no numbers, a line that is not UTF-8
Malformed ==
    {Raw(<<Space, CR, LF>>), Raw(<<Colon, LetterA, CR, LF>>),
     Raw(<<Dollar, LetterA, CR, LF>>), Raw(<<LetterA, BadByte, CR, LF>>)}

\* the start of a PING line
Partial == Raw(<<80, 73>>)

\* the streams of the first connection: commands as plain text, one after
\* the other; a command that is dropped, then one that is not; commands as
\* arrays; a command whose name has a line break in it; a command, a
\* malformed piece, a command; a command and the start of the next
Streams ==
    {<<Typed(<<PING>>)>>,
     <<Typed(<<PING>>), Typed(<<ECHO, <<LetterA>>>>)>>,
     <<Typed(<<SET, KeyK, <<Zero + 5>>>>), Typed(<<GET, KeyK>>)>>,
     <<Typed(<<INCR, KeyK>>), Typed(<<DECR, KeyK>>)>>,
     <<Typed(<<EXISTS, KeyK>>), Typed(<<DEL, KeyK>>)>>,
     <<Typed(<<GET>>), Typed(<<PING>>)>>,
     <<Typed(<<Foo>>), Typed(<<PING>>)>>,
     <<Typed(<<PING>>), Partial>>,
     <<Framed(<<PING>>)>>,
     <<Framed(<<PING>>), Framed(<<PING>>)>>,
     <<Framed(<<ECHO, <<LetterA>>>>)>>,
     <<Framed(<<<<LetterA, CR, LF, LetterA>>>>)>>}
    \cup {<<Typed(<<PING>>), bad, Typed(<<PING>>)>> : bad \in Malformed}
    \cup {<<Typed(<<SET, KeyK, <<Zero + 5>>>>), bad>> : bad \in Malformed}

\* the streams of the other connections: nothing, or a counter command
Others == {<<>>, <<Typed(<<INCR, KeyK>>)>>}

\* the bytes of a stream
RECURSIVE Bytes(_)
Bytes(stream) == IF stream = <<>> THEN <<>> ELSE Head(stream).bytes \o Bytes(Tail(stream))

\* a connection as process_connection starts on it: nothing read yet
Open(stream) ==
    [sent |-> stream, inbox |-> Bytes(stream), buffer |-> <<>>, state |-> "read_buf"]

InitDriver ==
    /\ wire = <<>>
    /\ nread = 0
    /\ buffer = <<>>
    /\ result = NoResult
    /\ decoded = <<>>
    /\ InitStore
    /\ task = [c \in Conns |-> Idle]
    /\ written = [c \in Conns |-> <<>>]
    /\ quota = [c \in Conns |-> 0]
    /\ \E first \in Streams, others \in [Conns -> Others] :
          conn = [c \in Conns |-> Open(IF c = 1 THEN first ELSE others[c])]

\* reader.read_buf(&mut buffer) returns Ok(n), n > 0: n more bytes are in
\* the buffer and the task enters its parse loop
Recv(c) ==
    /\ task[c].pc = "read"
    /\ conn[c].state = "read_buf"
    /\ \E n \in 1..Len(conn[c].inbox) :
          conn' = [conn EXCEPT ![c] =
                     [@ EXCEPT !.buffer = @ \o SubSeq(conn[c].inbox, 1, n),
                               !.inbox = SubSeq(@, n + 1, Len(@)),
                               !.state = "parse"]]
    /\ UNCHANGED <<wire, nread, buffer, result, decoded>>
    /\ UNCHANGED store_vars

\* reader.read_buf returns Ok(0): the client has closed, the task ends
Eof(c) ==
    /\ task[c].pc = "read"
    /\ conn[c].state = "read_buf"
    /\ conn[c].inbox = <<>>
    /\ conn' = [conn EXCEPT ![c].state = "closed"]
    /\ UNCHANGED <<wire, nread, buffer, result, decoded>>
    /\ UNCHANGED store_vars

\* the mutation of after_error: the task goes on to the next read
after_error_reads(cn) == [cn EXCEPT !.state = "read_buf"]

\* `RespType::parse(&mut buffer)?` returns the error: process_connection
\* returns it and the task ends
after_error(cn) == [cn EXCEPT !.state = "closed"]

\* one turn of `while let Some(resp) = RespType::parse(&mut buffer)?`: on
\* None the task goes back to read_buf; a frame is handed to
\* Command::from_resp and, if that makes a command, to Command::execute
Decode(c) ==
    /\ task[c].pc = "read"
    /\ conn[c].state = "parse"
    /\ LET r   == parse(conn[c].buffer)
           cmd == from_resp(r.opt[1])
       IN  IF r.res = "Err"
           THEN conn' = [conn EXCEPT ![c] = after_error([@ EXCEPT !.buffer = r.input])]
                /\ UNCHANGED task
           ELSE IF r.res = "Panic"
           THEN conn' = [conn EXCEPT ![c].state = "closed"]
                /\ task' = [task EXCEPT ![c] = Dead]
           ELSE IF r.opt = None
           THEN conn' = [conn EXCEPT ![c] = [@ EXCEPT !.buffer = r.input,
                                                      !.state = "read_buf"]]
                /\ UNCHANGED task
           ELSE /\ conn' = [conn EXCEPT ![c].buffer = r.input]
                /\ IF cmd = None THEN UNCHANGED task
                   ELSE IF cmd[1].op \in StoreOps
                   THEN task' = [task EXCEPT ![c] =
                                   [pc |-> "exec", cmd |-> cmd, value |-> None,
                                    response |-> None]]
                   ELSE task' = [task EXCEPT ![c] =
                                   [pc |-> "write", cmd |-> cmd, value |-> None,
                                    response |-> Some(execute(cmd[1]))]]
    /\ UNCHANGED <<wire, nread, buffer, result, decoded>>
    /\ UNCHANGED <<data, now, mutex, written, quota>>

\* Command::execute calls the Store method of the decoded command: it takes
\* the lock (a panic when the mutex is poisoned) and looks the key up
Enter(c) ==
    /\ task[c].pc = "exec"
    /\ can_lock(mutex)
    /\ IF mutex.poisoned
       THEN task' = [task EXCEPT ![c] = Dead] /\ UNCHANGED mutex
       ELSE /\ mutex' = [mutex EXCEPT !.locked = TRUE]
            /\ task' = [task EXCEPT ![c] =
                          [pc |-> "locked", cmd |-> task[c].cmd,
                           value |-> get(data, task[c].cmd[1].key),
                           response |-> None]]
    /\ UNCHANGED <<data, now, written, quota>>
    /\ UNCHANGED codec_vars

NextDriver ==
    \E c \in Conns :
       \/ Recv(c)
       \/ Eof(c)
       \/ Decode(c)
       \/ Enter(c)
       \/ store_set(c)
       \/ store_get(c)
       \/ store_exists(c)
       \/ store_del(c)
       \/ store_incr(c)
       \/ store_decr(c)
       \/ Write(c)

SpecDriver == InitDriver /\ [][NextDriver]_vars

----------------------------------------------------------------------------
(* The wire protocol's frames: how many bytes the first frame of a buffer   *)
(* takes, by the protocol's grammar (a line; a length line, that many       *)
(* bytes and a terminator; a count line and that many frames), or -1 when   *)
(* the buffer does not start with one complete frame.                       *)

RECURSIVE FrameLen(_), FramesLen(_, _)

FramesLen(bytes, count) ==
    IF count = 0 THEN 0
    ELSE LET first == FrameLen(bytes)
         IN  IF first < 0 THEN -1
             ELSE LET others == FramesLen(advance(bytes, first), count - 1)
                  IN  IF others < 0 THEN -1 ELSE first + others

FrameLen(bytes) ==
    LET end  == find_crlf(bytes)
        line == end[1] + 2
        n    == parse_i64(Slice(bytes, 1, end[1]))
    IN  IF end = None THEN -1
        ELSE IF bytes[1] \notin {Dollar, Star} THEN line
        ELSE IF n = None \/ n[1] < -1 THEN -1
        ELSE IF n[1] = -1 THEN line
        ELSE IF bytes[1] = Dollar
             THEN (IF Len(bytes) < line + n[1] + 2 THEN -1 ELSE line + n[1] + 2)
        ELSE LET children == FramesLen(advance(bytes, line), n[1])
             IN  IF children < 0 THEN -1 ELSE line + children

----------------------------------------------------------------------------
(* Claims about the codec *)

\* C1: whenever parse returns a value, the buffer afterwards is the buffer
\* before with exactly the bytes of its first frame removed from the front.
C1_FrameConsumed ==
    [][(ParseCall /\ result'.opt # None)
         => (FrameLen(buffer) >= 0 /\ buffer' = advance(buffer, FrameLen(buffer)))]_vars

\* C2: whenever parse reports incomplete, the buffer is byte for byte what
\* it was before the call.
C2_IncompleteUntouched ==
    [][(ParseCall /\ result'.res = "Ok" /\ result'.opt = None)
         => buffer' = buffer]_vars

\* C3: parse on a buffer holding exactly serialize(v) returns v and leaves
\* the buffer empty, for every protocol value v.
C3_RoundTrip ==
    [][(ParseCall /\ nread = Len(wire) /\ buffer = wire)
         => \A v \in Values :
               wire = serialize(v) => (result'.opt = Some(v) /\ buffer' = <<>>)]_vars

\* C4: when the bytes of one frame arrive in chunks with parse called after
\* each, every call before the last chunk reports incomplete and consumes
\* nothing, and the call after the last chunk returns what one parse of the
\* whole encoding returns and leaves the buffer that parse leaves.
C4_IncrementalDecode ==
    [][(ParseCall /\ decoded = <<>> /\ FrameLen(wire) = Len(wire))
         => IF nread < Len(wire)
            THEN result'.res = "Ok" /\ result'.opt = None /\ buffer' = buffer
            ELSE /\ result' = [parse(wire) EXCEPT !.input = <<>>]
                 /\ buffer' = parse(wire).input]_vars

----------------------------------------------------------------------------
(* Claims about the store *)

\* the key of the command task c is executing, the entry the map holds
\* for it, and the response the step hands to the task
KeyOf(c) == task[c].cmd[1].key
Entry(c) == get(data, KeyOf(c))
Responds(c, reply) == task'[c].response = Some(reply)

\* no Store call is in progress and every reply has been written
Quiescent == \A c \in Conns : task[c].pc = "read"

\* the replies written so far, as (connection, position), and those that
\* report a successful INCR
Replies == {p \in Conns \X (1..(NumConns * MaxCmds)) : p[2] <= Len(written[p[1]])}
Successes == {p \in Replies : written[p[1]][p[2]].t = "Integer"}

\* C5: with the connections all issuing INCR on one key that starts absent,
\* once all calls have returned the stored value is the number of calls that
\* succeeded, and the values returned are exactly 1..N, none twice.
C5_ConcurrentIncr ==
    Quiescent =>
        LET N == Cardinality(Successes)
        IN  /\ {written[p[1]][p[2]].n : p \in Successes} = 1..N
            /\ IF N = 0 THEN KeyK \notin DOMAIN data
               ELSE /\ KeyK \in DOMAIN data
                    /\ parse_int(data[KeyK]) = Some(N)

\* every connection has made all its calls, and the first connection's
\* calls were neither the first nor the last to be served
C5_Witness ==
    /\ Quiescent
    /\ \A c \in Conns : quota[c] = 0 /\ Len(written[c]) = MaxCmds
    /\ written[1][1].n > 1
    /\ written[1][MaxCmds].n < NumConns * MaxCmds

\* C6: SET k v without expiry leaves k holding v with no expiry, whatever k
\* held before, and a GET of an entry with no expiry returns its string and
\* changes nothing (so GET returns v until k is next written or deleted);
\* GET of a key the map does not hold returns the null bulk string and
\* changes nothing.
C6_SetThenGet ==
    [][\A c \in Conns :
         /\ (store_set(c) /\ task[c].cmd[1].expiry = None)
              => /\ get(data', KeyOf(c)) =
                        Some([data |-> task[c].cmd[1].value, expiry |-> None])
                 /\ Responds(c, SimpleString(OK))
         /\ (store_get(c) /\ Entry(c) # None /\ Entry(c)[1].expiry = None)
              => /\ Responds(c, BulkString(Some(Entry(c)[1].data)))
                 /\ data' = data
         /\ (store_get(c) /\ Entry(c) = None)
              => /\ Responds(c, BulkString(None))
                 /\ data' = data]_vars

\* SET k 5 has been answered and the GET k after it has just returned "5"
C6_Witness ==
    \E c \in Conns :
        /\ task[c].pc = "write"
        /\ task[c].cmd = Some(Get(KeyK))
        /\ task[c].response = Some(BulkString(Some(<<Zero + 5>>)))
        /\ written[c] = <<SimpleString(OK)>>
        /\ get(data, KeyK) = Some([data |-> <<Zero + 5>>, expiry |-> None])

\* the entry of task c's key is in the map and its deadline is before t
PastDeadline(c, t) ==
    /\ Entry(c) # None
    /\ Entry(c)[1].expiry # None
    /\ t > Entry(c)[1].expiry[1]

\* C7: SET k v EX 0 gives k a deadline no later than the instant the SET
\* returns, so any positive time later the deadline is past; GET of an entry
\* past its deadline returns the null bulk string and removes it, and EXISTS
\* of a key that is absent or past its deadline returns 0.
C7_ExpireAtOnce ==
    [][\A c \in Conns :
         /\ (/\ store_set(c)
             /\ \E v \in Vals :
                   task[c].cmd = from_resp(Request(<<SET, KeyOf(c), v, EX, <<Zero>>>>)))
              => /\ get(data', KeyOf(c)) # None
                 /\ data'[KeyOf(c)].expiry # None
                 /\ data'[KeyOf(c)].expiry[1] <= now'
         /\ (store_get(c) /\ PastDeadline(c, now))
              => /\ Responds(c, BulkString(None))
                 /\ KeyOf(c) \notin DOMAIN data'
         /\ (store_exists(c) /\ (Entry(c) = None \/ PastDeadline(c, now)))
              => /\ Responds(c, Integer(0))
                 /\ KeyOf(c) \notin DOMAIN data']_vars

\* a SET with EX 0 at instant 0 was answered, one millisecond passed, and
\* GET of the key has just returned null and removed the entry
C7_Witness ==
    \E c \in Conns :
        /\ task[c].pc = "write"
        /\ task[c].cmd = Some(Get(KeyK))
        /\ task[c].response = Some(BulkString(None))
        /\ written[c] = <<SimpleString(OK)>>
        /\ \A d \in Conns : quota[d] = 0
        /\ now = 1
        /\ data = EmptyMap

\* the keys of a list
Listed(keys) == {keys[i] : i \in 1..Len(keys)}

\* C8: DEL returns the number of listed keys it removes; it removes every
\* listed key that is present and not expired during the call, leaves every
\* listed key that was expired when the call began as it is, and changes no
\* other key.
C8_Del ==
    [][\A c \in Conns :
         store_del(c) =>
            LET listed  == Listed(task[c].cmd[1].keys)
                removed == DOMAIN data \ DOMAIN data'
            IN  /\ Responds(c, Integer(Cardinality(removed)))
                /\ removed \subseteq listed
                /\ DOMAIN data' \subseteq DOMAIN data
                /\ \A k \in DOMAIN data' : data'[k] = data[k]
                /\ \A k \in listed \cap DOMAIN data :
                      /\ ~is_expired(data[k], now') => k \in removed
                      /\ is_expired(data[k], now) => k \notin removed]_vars

\* DEL k j has just returned 1 with k set before and j never set
C8_Witness ==
    \E c \in Conns :
        /\ task[c].pc = "write"
        /\ task[c].cmd = Some(Del(<<KeyK, KeyJ>>))
        /\ task[c].response = Some(Integer(1))
        /\ written[c] = <<SimpleString(OK)>>
        /\ \A d \in Conns : quota[d] = 0
        /\ data = EmptyMap

\* what C9 says of one step of INCR (delta 1, first "1") or DECR (delta -1,
\* first "-1") by task c
CounterStep(c, delta, first) ==
    LET old == Entry(c)
        n   == parse_int(old[1])
    IN  /\ (old = None \/ is_expired(old[1], now))
             => /\ Responds(c, Integer(delta))
                /\ get(data', KeyOf(c)) = Some([data |-> first, expiry |-> None])
        /\ (/\ old # None
            /\ ~is_expired(old[1], now')
            /\ n # None
            /\ n[1] + delta \in I64_MIN..I64_MAX)
             => /\ Responds(c, Integer(n[1] + delta))
                /\ get(data', KeyOf(c)) # None
                /\ parse_int(data'[KeyOf(c)]) = Some(n[1] + delta)
                /\ old[1].expiry = None => data'[KeyOf(c)].expiry = None

\* C9: INCR (DECR) of a key that is absent or expired stores "1" ("-1") with
\* no expiry and returns 1 (-1); INCR (DECR) of a key holding the integer n
\* stores and returns n + 1 (n - 1), within the i64 range, and an entry with
\* no expiry keeps none: from an absent key, i INCRs and d DECRs give i - d.
C9_Counter ==
    [][\A c \in Conns :
         /\ store_incr(c) => CounterStep(c, 1, <<Zero + 1>>)
         /\ store_decr(c) => CounterStep(c, -1, <<Minus, Zero + 1>>)]_vars

\* INCR k on the absent key was answered 1 and DECR k has just returned 0
C9_Witness ==
    \E c \in Conns :
        /\ task[c].pc = "write"
        /\ task[c].cmd = Some(Decr(KeyK))
        /\ task[c].response = Some(Integer(0))
        /\ written[c] = <<Integer(1)>>
        /\ get(data, KeyK) = Some([data |-> <<Zero>>, expiry |-> None])

\* C10: INCR or DECR of a present, non-expired key whose string is no i64
\* returns the error reply and leaves the whole map as it was, and a GET of
\* a present, non-expired key returns its string.
C10_NotAnInteger ==
    [][\A c \in Conns :
         /\ (/\ store_incr(c) \/ store_decr(c)
             /\ Entry(c) # None
             /\ ~is_expired(Entry(c)[1], now')
             /\ parse_i64(Entry(c)[1].data) = None)
              => /\ Responds(c, Error(NotAnInteger))
                 /\ data' = data
         /\ (/\ store_get(c)
             /\ Entry(c) # None
             /\ ~is_expired(Entry(c)[1], now'))
              => /\ Responds(c, BulkString(Some(Entry(c)[1].data)))
                 /\ data' = data]_vars

\* SET k a was answered and INCR k has just returned the error, k unchanged
C10_Witness ==
    \E c \in Conns :
        /\ task[c].pc = "write"
        /\ task[c].cmd = Some(Incr(KeyK))
        /\ task[c].response = Some(Error(NotAnInteger))
        /\ written[c] = <<SimpleString(OK)>>
        /\ get(data, KeyK) = Some([data |-> <<LetterA>>, expiry |-> None])

\* task c's INCR (delta 1) or DECR (delta -1) finds its key holding the
\* integer n # 0 under a deadline not yet passed, and succeeds with n + delta
CountsUnderDeadline(c, delta) ==
    /\ Entry(c) # None
    /\ Entry(c)[1].expiry # None
    /\ ~is_expired(Entry(c)[1], now)
    /\ parse_int(Entry(c)[1]) # None
    /\ parse_int(Entry(c)[1])[1] # 0
    /\ Responds(c, Integer(parse_int(Entry(c)[1])[1] + delta))

\* C11: a successful INCR or DECR of a present, non-expired entry that has
\* an expiry leaves an entry that still has an expiry, however the clock
\* advances between the operation's clock reads, and the time the entry has
\* left when the operation returns is no more than it had left before (so
\* no more than the duration given to SET).
C11_KeepsExpiry ==
    [][\A c \in Conns :
         /\ (store_incr(c) /\ CountsUnderDeadline(c, 1))
              => /\ data'[KeyOf(c)].expiry # None
                 /\ data'[KeyOf(c)].expiry[1] - now' <= Entry(c)[1].expiry[1] - now
         /\ (store_decr(c) /\ CountsUnderDeadline(c, -1))
              => /\ data'[KeyOf(c)].expiry # None
                 /\ data'[KeyOf(c)].expiry[1] - now' <= Entry(c)[1].expiry[1] - now]_vars

\* key k holds no entry past its deadline once the step has returned
Reaped(k) ==
    \/ k \notin DOMAIN data'
    \/ data'[k].expiry = None
    \/ now' <= data'[k].expiry[1]

\* a key of the list of task c's DEL whose entry is past its deadline
ListedPast(c, k) ==
    /\ k \in Listed(task[c].cmd[1].keys) \cap DOMAIN data
    /\ data[k].expiry # None
    /\ now > data[k].expiry[1]

\* C15 as stated: whichever of GET, EXISTS, DEL, INCR, DECR is the first
\* to find an entry past its expiry, the expired entry is not in the map
\* when the operation returns; GET and EXISTS report absent and 0.
C15_NoEntryPastExpiry ==
    [][\A c \in Conns :
         /\ (store_get(c) /\ PastDeadline(c, now))
              => Reaped(KeyOf(c)) /\ Responds(c, BulkString(None))
         /\ (store_exists(c) /\ PastDeadline(c, now))
              => Reaped(KeyOf(c)) /\ Responds(c, Integer(0))
         /\ ((store_incr(c) \/ store_decr(c)) /\ PastDeadline(c, now))
              => Reaped(KeyOf(c))
         /\ store_del(c) => \A k \in DOMAIN data : ListedPast(c, k) => Reaped(k)]_vars

\* C15 as the store behaves: GET and EXISTS remove an entry they find past
\* its expiry and report absent and 0, INCR and DECR replace it by a fresh
\* entry with no expiry, and DEL leaves it in the map as it is.
C15_LazyExpiry ==
    [][\A c \in Conns :
         /\ (store_get(c) /\ PastDeadline(c, now))
              => KeyOf(c) \notin DOMAIN data' /\ Responds(c, BulkString(None))
         /\ (store_exists(c) /\ PastDeadline(c, now))
              => KeyOf(c) \notin DOMAIN data' /\ Responds(c, Integer(0))
         /\ ((store_incr(c) \/ store_decr(c)) /\ PastDeadline(c, now))
              => /\ KeyOf(c) \in DOMAIN data'
                 /\ data'[KeyOf(c)].expiry = None
         /\ store_del(c) =>
               \A k \in DOMAIN data :
                  ListedPast(c, k) => k \in DOMAIN data' /\ data'[k] = data[k]]_vars

\* SET k a EX 0 at instant 0 was answered, time passed, and DEL k has just
\* returned 0 with the expired entry still in the map
C15_Witness ==
    \E c \in Conns :
        /\ task[c].pc = "write"
        /\ task[c].cmd = Some(Del(<<KeyK>>))
        /\ task[c].response = Some(Integer(0))
        /\ now > 0
        /\ get(data, KeyK) = Some([data |-> <<LetterA>>, expiry |-> Some(0)])

\* C16: every SET replaces the whole entry of its key and touches no other
\* key: without an expiry option the key is left with no expiry, whatever
\* deadline it had, and with one the deadline is the duration added to an
\* instant of the SET call, the old deadline playing no part.
C16_SetReplaces ==
    [][\A c \in Conns :
         store_set(c) =>
            LET cmd == task[c].cmd[1]
            IN  /\ cmd.key \in DOMAIN data'
                /\ data'[cmd.key].data = cmd.value
                /\ cmd.expiry = None => data'[cmd.key].expiry = None
                /\ cmd.expiry # None =>
                      /\ data'[cmd.key].expiry # None
                      /\ data'[cmd.key].expiry[1] - cmd.expiry[1] \in now..now'
                /\ DOMAIN data' = DOMAIN data \cup {cmd.key}
                /\ \A k \in DOMAIN data \ {cmd.key} : data'[k] = data[k]]_vars

\* task c's key holds the integer n, with no deadline passed
HoldsInteger(c, n) ==
    /\ Entry(c) # None
    /\ ~is_expired(Entry(c)[1], now')
    /\ parse_int(Entry(c)[1]) = Some(n)

\* C18: INCR of a key holding the largest i64 returns and stores the
\* smallest, DECR of a key holding the smallest returns and stores the
\* largest; the call returns with the lock released and sound, so later
\* operations of every connection still work.
C18_Wraps ==
    [][\A c \in Conns :
         /\ (store_incr(c) /\ HoldsInteger(c, I64_MAX))
              => /\ Responds(c, Integer(I64_MIN))
                 /\ parse_int(data'[KeyOf(c)]) = Some(I64_MIN)
                 /\ mutex' = [locked |-> FALSE, poisoned |-> FALSE]
         /\ (store_decr(c) /\ HoldsInteger(c, I64_MIN))
              => /\ Responds(c, Integer(I64_MAX))
                 /\ parse_int(data'[KeyOf(c)]) = Some(I64_MAX)
                 /\ mutex' = [locked |-> FALSE, poisoned |-> FALSE]]_vars

----------------------------------------------------------------------------
(* Claims about the command model *)

\* a non-empty array whose first element is a present bulk string, the
\* name in upper case, and the number of elements
HasName(f) == f.t = "Array" /\ f.a # None /\ f.a[1] # <<>> /\ IsBulk(f.a[1][1])
NameOf(f) == to_uppercase(f.a[1][1].s[1])
Arity(f) == Len(f.a[1])

\* the arity table of the command model
ArityTable(name, n) ==
    \/ name = PING /\ n = 1
    \/ name \in {ECHO, GET, EXISTS, INCR, DECR} /\ n = 2
    \/ name = SET /\ n \in {3, 5}
    \/ name = DEL /\ n >= 2

\* the frame matches the table and its operands are present bulk strings
WellFormed(f) ==
    /\ ArityTable(NameOf(f), Arity(f))
    /\ \A i \in 2..Arity(f) : IsBulk(f.a[1][i])

\* the frames that name a known command, and those of them that do not
\* match the table
Knowns == {f \in Frames : HasName(f) /\ NameOf(f) \in Names}
IllFormed == {f \in Knowns : ~WellFormed(f)}

\* C12: of a frame whose first element names a known command a Command is
\* made only when the element count matches the arity table and every
\* operand is a present bulk string; a frame of which none is made is
\* dropped: no reply, the store unchanged, the task ready for the next frame.
C12_ArityTable ==
    [][\A c \in Conns :
         /\ ~Lock(c, IllFormed)
         /\ ~Answer(c, IllFormed)
         /\ Drop(c, Knowns) =>
               /\ UNCHANGED <<data, mutex, written>>
               /\ task'[c] = Idle]_vars

\* the error reply that names a command
UnknownReply(name) == Error(UnknownPrefix \o name \o <<39>>)

\* the Command variant a supported name stands for
VariantOf(name) ==
    IF name = PING THEN "Ping" ELSE IF name = ECHO THEN "Echo"
    ELSE IF name = SET THEN "Set" ELSE IF name = GET THEN "Get"
    ELSE IF name = EXISTS THEN "Exists" ELSE IF name = DEL THEN "Del"
    ELSE IF name = INCR THEN "Incr" ELSE "Decr"

\* the frames with a name that is not supported
Unknowns == {f \in Frames : HasName(f) /\ NameOf(f) \notin Names}

\* C13: a non-empty array whose first element is a present bulk string
\* matching no supported name, whatever its operands, is never dropped and
\* becomes Command::Unknown; its execution changes no entry and takes no
\* lock, and exactly one reply, the error text naming the command (in upper
\* case), is written before the task takes the next frame.  A supported
\* name in any letter-case becomes that command, never Unknown.
C13_Unknown ==
    [][\A c \in Conns :
         /\ ~Drop(c, Unknowns)
         /\ ~Lock(c, Unknowns)
         /\ \A f \in Unknowns :
               Answer(c, {f}) =>
                  /\ task'[c].cmd = Some(Unknown(NameOf(f)))
                  /\ Responds(c, UnknownReply(NameOf(f)))
                  /\ UNCHANGED <<data, mutex, written>>
         /\ (task[c].pc = "read" /\ task'[c].pc \in {"locked", "write"}) =>
               \A f \in Knowns :
                  (Lock(c, {f}) \/ Answer(c, {f}))
                     => task'[c].cmd[1].op = VariantOf(NameOf(f))
         /\ (Write(c) /\ task[c].cmd[1].op = "Unknown") =>
               /\ written'[c] = Append(written[c], UnknownReply(task[c].cmd[1].value))
               /\ task'[c] = Idle
               /\ UNCHANGED <<data, mutex>>]_vars

\* "FOO" was answered with its error and the same connection's "ping" has
\* then been answered PONG
C13_Witness ==
    \E c \in Conns :
        /\ written[c] = <<UnknownReply(Foo), SimpleString(PONG)>>
        /\ task[c] = Idle
        /\ data = EmptyMap

\* the expiry, in milliseconds, that an option token and a value token ask
\* for
Asked(opt, val) ==
    IF parse_u64(val) = None THEN None
    ELSE IF to_uppercase(opt) = EX THEN Some(1000 * parse_u64(val)[1])
    ELSE IF to_uppercase(opt) = PX THEN Some(parse_u64(val)[1])
    ELSE None

\* C17: a SET frame with an option token and a value token is always
\* executed as a SET of its key and value: with EX (PX), in any letter-case,
\* and an unsigned integer its expiry is that many seconds (milliseconds),
\* with any other option or value it has none; the SET replies OK and
\* stores the key with the deadline that expiry gives, or with none.
C17_SetOptions ==
    [][\A c \in Conns :
         /\ ~Drop(c, WithOption)
         /\ ~Answer(c, WithOption)
         /\ (task[c].pc = "read" /\ task'[c].pc = "locked") =>
               \A f \in WithOption :
                  Lock(c, {f}) =>
                     task'[c].cmd = Some(Set(f.a[1][2].s[1], f.a[1][3].s[1],
                                             Asked(f.a[1][4].s[1], f.a[1][5].s[1])))
         /\ store_set(c) =>
               LET cmd == task[c].cmd[1]
               IN  /\ Responds(c, SimpleString(OK))
                   /\ cmd.key \in DOMAIN data'
                   /\ data'[cmd.key].data = cmd.value
                   /\ cmd.expiry = None => data'[cmd.key].expiry = None
                   /\ cmd.expiry # None =>
                         /\ data'[cmd.key].expiry # None
                         /\ data'[cmd.key].expiry[1] - cmd.expiry[1] \in now..now']_vars

----------------------------------------------------------------------------
(* Claims about the connection driver *)

\* C14: when parse returns a decode error on a connection, the step closes
\* that connection and changes nothing else: not the store, not the lock,
\* not a reply already written, not any task, not another connection, so
\* the others go on exactly as they would have; and a closed connection
\* never reads, decodes or writes again.
C14_DecodeErrorIsLocal ==
    [][\A c \in Conns :
         /\ (Decode(c) /\ parse(conn[c].buffer).res = "Err") =>
               /\ conn'[c].state = "closed"
               /\ UNCHANGED <<data, mutex, written, task, now>>
               /\ \A o \in Conns \ {c} : conn'[o] = conn[o]
         /\ conn[c].state = "closed" =>
               /\ conn'[c] = conn[c]
               /\ written'[c] = written[c]
               /\ task'[c] = task[c]]_vars

\* the first connection was closed by a decode error after one reply, with
\* a command still unread behind the malformed line; the second connection
\* has had its command executed and answered
C14_Witness ==
    /\ conn[1].state = "closed"
    /\ parse(conn[1].buffer).res = "Err"
    /\ written[1] = <<SimpleString(PONG)>>
    /\ task[1] = Idle
    /\ written[2] = <<Integer(1)>>
    /\ conn[2].state = "closed"
    /\ data # EmptyMap

\* the pieces of a stream that are valid commands, in the order sent
Commands(stream) ==
    SelectSeq(stream, LAMBDA p : p.value # None /\ from_resp(p.value[1]) # None)

\* the bytes of a frame not yet complete at the end of a stream
Trailing(stream) ==
    IF stream # <<>> /\ stream[Len(stream)] = Partial THEN Partial.bytes ELSE <<>>

\* reply i answers command i: the reply of execute for a command that needs
\* no store; for a store command the kind of reply that command makes
Answers(reply, cmd) ==
    IF cmd.op \notin StoreOps THEN reply = execute(cmd)
    ELSE IF cmd.op = "Set" THEN reply = SimpleString(OK)
    ELSE IF cmd.op = "Get" THEN reply.t = "BulkString"
    ELSE reply.t \in {"Integer", "Error"}

\* the connection has taken every byte sent and waits for more
Drained(c) ==
    /\ conn[c].state = "read_buf"
    /\ conn[c].inbox = <<>>
    /\ task[c] = Idle

\* C19: once a connection has processed all the complete frames it was
\* sent, however they were split over reads and whether array-framed or
\* plain text, it has written exactly one reply per valid command, in the
\* order sent, and its buffer holds only the bytes of the trailing frame
\* that is not complete yet.
C19_OneReplyPerCommand ==
    \A c \in Conns :
       Drained(c) =>
          LET cmds == Commands(conn[c].sent)
          IN  /\ Len(written[c]) = Len(cmds)
              /\ \A i \in 1..Len(cmds) :
                    i <= Len(written[c]) =>
                       Answers(written[c][i], from_resp(cmds[i].value[1])[1])
              /\ conn[c].buffer = Trailing(conn[c].sent)

\* C20: every reply written is the encoding of exactly one well-formed
\* frame: parsing the bytes of serialize gives back the reply and leaves no
\* byte over, and the text of a status or error reply has no CR LF in it.
C20_ReplyIsOneFrame ==
    \A c \in Conns :
       \A i \in 1..Len(written[c]) :
          LET reply == written[c][i]
          IN  /\ parse(serialize(reply)) = Ok(Some(reply), <<>>)
              /\ reply.t \in {"SimpleString", "Error"} => ~HasCrlf(reply.s[1])

----------------------------------------------------------------------------
(* Claims about lengths out of range *)

\* the buffer starts with a bulk-string or array header whose length is a
\* negative number other than -1
NegativeHeader(input) ==
    /\ input # <<>>
    /\ input[1] \in {Dollar, Star}
    /\ find_crlf(input) # None
    /\ LET len == parse_i64(Slice(input, 1, find_crlf(input)[1]))
       IN  len # None /\ len[1] < -1

\* C21: every call of parse ends with a value, with incomplete or with a
\* decode error, never with a panic that aborts the task; and a header that
\* declares a negative length other than -1 never yields a value.
C21_ThreeOutcomes ==
    [][ParseCall =>
          /\ result'.res \in {"Ok", "Err"}
          /\ NegativeHeader(buffer) => result'.opt = None]_vars

====
